---- MODULE Spec2Model ----
(***************************************************************************)
(* Model of quijy/core.py: conversion, classification, Kronecker products, *)
(* identity padding, chop and the small utilities, over complex matrices   *)
(* with Gaussian-integer entries.                                          *)
(*                                                                         *)
(* A matrix object is a record [shape, data, sparse]: shape = <<m, n>>,    *)
(* data a function on (0..m-1) \X (0..n-1) giving <<re, im>>, and sparse   *)
(* the storage mode (scipy csr when TRUE, numpy when FALSE).               *)
(*                                                                         *)
(* A behaviour is one interpreter session: Init draws a call (function     *)
(* name, matrix arguments, other parameters), the action of that function  *)
(* runs it.  args keeps the caller's matrices as they were passed, heap    *)
(* the same objects as they are now, ret what was returned and same the    *)
(* position of the argument ret is the very instance of (0: a new object). *)
(***************************************************************************)
EXTENDS Integers, Sequences, FiniteSets, TLC

VARIABLES fn, args, heap, par, ret, same, step

vars == <<fn, args, heap, par, ret, same, step>>

----------------------------------------------------------------------------
(* Bounds of the model *)

\* largest row or column count of a drawn matrix
MaxDim == 2
\* number of entry patterns a matrix of a given shape is drawn from, less one
MaxSeed == 2
\* largest number of subsystems in dims
MaxSub == 4
\* largest dimension of a subsystem in dims
MaxSubDim == 3
\* largest row count of a matrix built by eyepad
MaxOut == 16
\* largest row or column count of a shape given to the classifiers
MaxShape == 4
\* largest real part of an entry given to chop (imaginary parts are 0 or 1)
MaxPart == 3
\* chop tolerances are n / TolDen for n in 1..MaxTolNum
MaxTolNum == 3
TolDen == 4
\* largest power given to kronpow
MaxPwr == 3
\* number of successive chop calls on the same instance
MaxChops == 2

----------------------------------------------------------------------------
(* Complex numbers <<re, im>> *)

cadd(u, v) == <<u[1] + v[1], u[2] + v[2]>>
csub(u, v) == <<u[1] - v[1], u[2] - v[2]>>
cmul(u, v) == <<u[1] * v[1] - u[2] * v[2], u[1] * v[2] + u[2] * v[1]>>
cconj(u) == <<u[1], -u[2]>>
\* |u|^2
cabs2(u) == u[1] * u[1] + u[2] * u[2]
abs(k) == IF k < 0 THEN -k ELSE k

(* Matrices *)

Pos(m, n) == (0 .. m - 1) \X (0 .. n - 1)
rows(p) == p.shape[1]
cols(p) == p.shape[2]
\* the entries of p in row-major order, as numpy's C-contiguous layout holds them
flat(p, k) == p.data[<<k \div cols(p), k % cols(p)>>]
size(p) == rows(p) * cols(p)

\* the sum of a sequence of complex numbers
RECURSIVE csum(_)
csum(xs) == IF Len(xs) = 0 THEN <<0, 0>> ELSE cadd(xs[1], csum(Tail(xs)))

(* Drawn inputs: entry k (row-major) of pattern s *)
Entry(s, k) == <<(((k + 1) * (s + 1) + s * s) % 5) - 2, ((k * s + s) % 3) - 1>>
Gen(m, n, s, sp) ==
    [shape |-> <<m, n>>,
     data |-> [q \in Pos(m, n) |-> Entry(s, q[1] * n + q[2])],
     sparse |-> sp]
Seeds == 0 .. MaxSeed
Dims == 1 .. MaxDim
DenseInputs == {Gen(m, n, s, FALSE) : m \in Dims, n \in Dims, s \in Seeds}
MatInputs == {Gen(m, n, s, sp) : m \in Dims, n \in Dims, s \in Seeds, sp \in BOOLEAN}

\* what np.empty may hold before it is written
Junk == {<<0, 0>>, <<9, 9>>}

NoRet == [tag |-> "none"]
\* a returned matrix; writes counts the assignments krnd2 made to each cell
\* of the result when the call filled it with krnd2's loops (else empty)
MatrixW(p, w) == [tag |-> "matrix", val |-> p, writes |-> w]
Matrix(p) == MatrixW(p, << >>)
Scalar(k) == [tag |-> "scalar", num |-> k]
Raise(e) == [tag |-> "raise", err |-> e]

\* the state in which function f has been called with matrices as and
\* parameters p, and has not run yet
Call(f, as, p) ==
    /\ fn = f /\ args = as /\ heap = as /\ par = p
    /\ ret = NoRet /\ same = 0 /\ step = 0

\* the call returns r, the instance of argument s (0: a new object), and
\* leaves the caller's matrices as h
Return(r, s, h) ==
    /\ ret' = r /\ same' = s /\ heap' = h /\ step' = step + 1
    /\ UNCHANGED <<fn, args, par>>

----------------------------------------------------------------------------
(* isket, isbra, isop, tr, nrmlz *)

\* shape[0] >= 1 in place of shape[0] > 1
isket_ge(p) == p.shape[1] >= 1 /\ p.shape[2] = 1

isket(p) == p.shape[1] > 1 /\ p.shape[2] = 1
isbra(p) == p.shape[1] = 1 /\ p.shape[2] > 1

\* square, without m > 1
isop_square(p) == p.shape[1] = p.shape[2]

isop(p) == p.shape[1] = p.shape[2] /\ p.shape[1] > 1

\* numpy operations the module uses
reshape(p, m, n) ==
    [shape |-> <<m, n>>,
     data |-> [q \in Pos(m, n) |-> flat(p, q[1] * n + q[2])],
     sparse |-> p.sparse]
conj(p) == [p EXCEPT !.data = [q \in DOMAIN p.data |-> cconj(p.data[q])]]
\* p.H
herm(p) ==
    [shape |-> <<cols(p), rows(p)>>,
     data |-> [q \in Pos(cols(p), rows(p)) |-> cconj(p.data[<<q[2], q[1]>>])],
     sparse |-> p.sparse]
\* a * b for np.matrix
matmul(a, b) ==
    [shape |-> <<rows(a), cols(b)>>,
     data |-> [q \in Pos(rows(a), cols(b)) |->
                 csum([k \in 1 .. cols(a) |->
                          cmul(a.data[<<q[1], k - 1>>], b.data[<<k - 1, q[2]>>])])],
     sparse |-> FALSE]
\* sp.csr_matrix(p, dtype=complex)
csr_matrix(p) == [p EXCEPT !.sparse = TRUE]

\* tr(a): the sum of the real parts of a[i, i], i in range(a.shape[0])
tr(a) == csum([k \in 1 .. rows(a) |-> <<a.data[<<k - 1, k - 1>>][1], 0>>])[1]

\* p / den**0.5 (root) or p / den: the division is kept symbolic
Scaled(p, r, d) == [tag |-> "scaled", val |-> p, root |-> r, den |-> d]

nrmlz(p) ==
    IF isket(p) THEN Scaled(p, TRUE, matmul(herm(p), p).data[<<0, 0>>])
    ELSE IF isbra(p) THEN Scaled(p, TRUE, matmul(p, herm(p)).data[<<0, 0>>])
    ELSE Scaled(p, FALSE, <<tr(p), 0>>)

----------------------------------------------------------------------------
(* qonvert *)

KetTypes == {"k", "ket"}
BraTypes == {"b", "bra"}
OpTypes == {"p", "d", "r", "rho", "op", "dop"}
QTypes == {"None"} \cup KetTypes \cup BraTypes \cup OpTypes
\* what data is: a (nested) list, a complex ndarray or a complex np.matrix
Kinds == {"list", "ndarray", "matrix"}

\* np.matrix(data, copy=False, dtype=complex) is data itself when data is
\* a complex np.matrix, a view with its own shape when data is a complex
\* ndarray, a new matrix when data is a list
is_data(kind) == kind = "matrix"

\* Inside qonvert the name nrmlz is the parameter (line 11), so nrmlz(p)
\* calls the flag: a bool is not callable
call_flag(flag, p) == Raise("TypeError: 'bool' object is not callable")

\* [p: the matrix named p after lines 25-34, own: p is the caller's data
\* instance, arg: the caller's data object after these lines]
RECURSIVE convert(_, _, _)
convert(data, kind, qtype) ==
    LET own == is_data(kind)
        sz == size(data)
    IN  IF qtype \in KetTypes
        THEN [p |-> reshape(data, sz, 1), own |-> own,
              arg |-> IF own THEN reshape(data, sz, 1) ELSE data]
        ELSE IF qtype \in BraTypes
        THEN [p |-> conj(reshape(data, 1, sz)), own |-> FALSE,
              arg |-> IF own THEN reshape(data, 1, sz) ELSE data]
        ELSE IF qtype \in OpTypes /\ ~isop(data)
        THEN \* both inner calls get the np.matrix p and reshape it in place
             LET k1 == convert(data, "matrix", "k")
                 k2 == convert(k1.arg, "matrix", "k")
             IN  [p |-> matmul(k2.arg, herm(k2.p)), own |-> FALSE,
                  arg |-> IF own THEN k2.arg ELSE data]
        ELSE [p |-> data, own |-> own, arg |-> data]

\* [ret, same, arg] of qonvert(data, qtype, sparse, nrmlz)
qonvert(data, kind, qtype, sparse, flag) ==
    LET c == convert(data, kind, qtype)
    IN  IF flag
        THEN [ret |-> call_flag(flag, c.p), same |-> 0, arg |-> c.arg]
        ELSE IF sparse
        THEN [ret |-> Matrix(csr_matrix(c.p)), same |-> 0, arg |-> c.arg]
        ELSE [ret |-> Matrix(c.p), same |-> IF c.own THEN 1 ELSE 0, arg |-> c.arg]

InitQonvert ==
    \E data \in DenseInputs, kind \in Kinds, qtype \in QTypes,
       sparse \in BOOLEAN, flag \in BOOLEAN :
        Call("qonvert", <<data>>,
             [kind |-> kind, qtype |-> qtype, sparse |-> sparse, nrmlz |-> flag])

Qonvert ==
    /\ fn = "qonvert" /\ step = 0
    /\ LET r == qonvert(args[1], par.kind, par.qtype, par.sparse, par.nrmlz)
       IN  Return(r.ret, r.same, <<r.arg>>)

InitQ == InitQonvert
NextQ == Qonvert
SpecQ == InitQ /\ [][NextQ]_vars

\* the shape and the entries of a matrix, whatever its storage
entries(p) == [shape |-> p.shape, data |-> p.data]

\* ket * ket^H for the ket holding the entries of d in row-major order
outer(d) ==
    [shape |-> <<size(d), size(d)>>,
     data |-> [q \in Pos(size(d), size(d)) |-> cmul(flat(d, q[1]), cconj(flat(d, q[2])))]]

\* C5 as stated: with the normalize flag set, qonvert returns nrmlz applied
\* to the converted matrix.
C5_NormalizeReturns ==
    (fn = "qonvert" /\ step = 1 /\ par.nrmlz)
    => ret = nrmlz(convert(args[1], par.kind, par.qtype).p)

\* C6 as stated: with an operator qtype, a square input (1x1 included) is
\* returned unchanged and any other input as the outer product of its ket.
C6_AsStated ==
    (fn = "qonvert" /\ step = 1 /\ par.qtype \in OpTypes /\ ~par.nrmlz)
    => entries(ret.val) = IF rows(args[1]) = cols(args[1])
                          THEN entries(args[1])
                          ELSE outer(args[1])

\* C6 (amended): with an operator qtype, a square input with more than one
\* row is returned unchanged; any other input, the 1x1 one included, is
\* returned as the outer product ket*ket^H of the input reshaped to a column.
C6_OperatorConversion ==
    (fn = "qonvert" /\ step = 1 /\ par.qtype \in OpTypes /\ ~par.nrmlz)
    => entries(ret.val) = IF rows(args[1]) = cols(args[1]) /\ rows(args[1]) > 1
                          THEN entries(args[1])
                          ELSE outer(args[1])

\* a 1x1 input [[z]] with |z|^2 # z was converted to [[|z|^2]]
C6_Witness ==
    /\ fn = "qonvert" /\ step = 1 /\ par.qtype = "dop" /\ ~par.nrmlz
    /\ args[1].shape = <<1, 1>>
    /\ ret.val.data[<<0, 0>>] = <<cabs2(args[1].data[<<0, 0>>]), 0>>
    /\ ret.val.data[<<0, 0>>] # args[1].data[<<0, 0>>]

----------------------------------------------------------------------------
(* the classifiers, asked one after the other about the same matrix *)

ShapeInputs == {Gen(m, n, 0, FALSE) : m \in 1 .. MaxShape, n \in 1 .. MaxShape}
Classifiers == {"isket", "isbra", "isop"}
asked == IF ret.tag = "bools" THEN ret.asked ELSE {}
yes == IF ret.tag = "bools" THEN ret.yes ELSE {}
Answer(name, b) ==
    Return([tag |-> "bools", asked |-> asked \cup {name},
            yes |-> IF b THEN yes \cup {name} ELSE yes], 0, heap)

InitClassify == \E p \in ShapeInputs : Call("classify", <<p>>, [none |-> TRUE])

IsKet == fn = "classify" /\ "isket" \notin asked /\ Answer("isket", isket(args[1]))
IsBra == fn = "classify" /\ "isbra" \notin asked /\ Answer("isbra", isbra(args[1]))
IsOp == fn = "classify" /\ "isop" \notin asked /\ Answer("isop", isop(args[1]))

InitS == InitClassify
NextS == IsKet \/ IsBra \/ IsOp
SpecS == InitS /\ [][NextS]_vars

\* C10 as stated: at most one of isket, isbra, isop is true of a shape,
\* except 1x1, of which isket and isbra are both true.
C10_AsStated ==
    (fn = "classify" /\ asked = Classifiers)
    => IF args[1].shape = <<1, 1>>
       THEN {"isket", "isbra"} \subseteq yes
       ELSE Cardinality(yes) <= 1

\* C10 (amended): at most one of isket, isbra, isop is true of any shape,
\* and none of them is true of the 1x1 shape.
C10_MutuallyExclusive ==
    (fn = "classify" /\ asked = Classifiers)
    => /\ Cardinality(yes) <= 1
       /\ args[1].shape = <<1, 1>> => yes = {}

\* the three classifiers have answered about a 1x1 matrix, each with no
C10_Witness ==
    /\ fn = "classify" /\ asked = Classifiers
    /\ args[1].shape = <<1, 1>>
    /\ yes = {}

----------------------------------------------------------------------------
(* nrmlz, ldmul, rdmul, comm called on their own *)

\* evl('v*m') with v reshaped to a column: row i of m scaled by v[i]
ldmul(v, m) ==
    [shape |-> m.shape,
     data |-> [q \in DOMAIN m.data |-> cmul(flat(v, q[1]), m.data[q])],
     sparse |-> FALSE]
\* evl('m*v') with v reshaped to a row: column j of m scaled by v[j]
rdmul(m, v) ==
    [shape |-> m.shape,
     data |-> [q \in DOMAIN m.data |-> cmul(m.data[q], flat(v, q[2]))],
     sparse |-> FALSE]
msub(a, b) == [a EXCEPT !.data = [q \in DOMAIN a.data |-> csub(a.data[q], b.data[q])]]
comm(a, b) == msub(matmul(a, b), matmul(b, a))

isvec(v) == rows(v) = 1 \/ cols(v) = 1

InitNrmlz ==
    \E p \in DenseInputs :
        /\ isket(p) \/ isbra(p) \/ rows(p) = cols(p)
        /\ Call("nrmlz", <<p>>, [none |-> TRUE])
Nrmlz == fn = "nrmlz" /\ step = 0 /\ Return(nrmlz(args[1]), 0, heap)

InitLdmul ==
    \E v \in DenseInputs, m \in DenseInputs :
        /\ isvec(v) /\ size(v) = rows(m)
        /\ Call("ldmul", <<v, m>>, [none |-> TRUE])
Ldmul == fn = "ldmul" /\ step = 0 /\ Return(Matrix(ldmul(args[1], args[2])), 0, heap)

InitRdmul ==
    \E m \in DenseInputs, v \in DenseInputs :
        /\ isvec(v) /\ size(v) = cols(m)
        /\ Call("rdmul", <<m, v>>, [none |-> TRUE])
Rdmul == fn = "rdmul" /\ step = 0 /\ Return(Matrix(rdmul(args[1], args[2])), 0, heap)

InitComm ==
    \E a \in DenseInputs, b \in DenseInputs :
        /\ rows(a) = cols(a) /\ a.shape = b.shape
        /\ Call("comm", <<a, b>>, [none |-> TRUE])
Comm == fn = "comm" /\ step = 0 /\ Return(Matrix(comm(args[1], args[2])), 0, heap)

----------------------------------------------------------------------------
(* krnd2, kron, kronpow *)

\* the iterations (i, j) of krnd2's loops whose slice
\* x[i*p:(i+1)*p, j*q:(j+1)*q] covers cell (r, c)
krnd2_cover_jp(a, b, r, c) ==
    {i \in 0 .. rows(a) - 1 : i * rows(b) <= r /\ r < (i + 1) * rows(b)}
        \X {j \in 0 .. cols(a) - 1 : j * rows(b) <= c /\ c < (j + 1) * rows(b)}

krnd2_cover(a, b, r, c) ==
    {i \in 0 .. rows(a) - 1 : i * rows(b) <= r /\ r < (i + 1) * rows(b)}
        \X {j \in 0 .. cols(a) - 1 : j * cols(b) <= c /\ c < (j + 1) * cols(b)}

\* the array x when the loops end: each cell holds what the last covering
\* iteration (in loop order) assigned, or what np.empty left there, and the
\* number of assignments made to it
krnd2_x(a, b, junk) ==
    [q \in Pos(rows(a) * rows(b), cols(a) * cols(b)) |->
        LET W == krnd2_cover(a, b, q[1], q[2])
        IN  IF W = {}
            THEN [val |-> junk, cnt |-> 0]
            ELSE LET w == CHOOSE u \in W :
                            \A v \in W : v[1] * cols(a) + v[2] <= u[1] * cols(a) + u[2]
                 IN  [val |-> cmul(a.data[w],
                                   b.data[<<q[1] - w[1] * rows(b), q[2] - w[2] * cols(b)>>]),
                      cnt |-> Cardinality(W)]]

krnd2_writes(a, b, junk) ==
    LET x == krnd2_x(a, b, junk) IN [q \in DOMAIN x |-> x[q].cnt]

krnd2(a, b, junk) ==
    LET x == krnd2_x(a, b, junk)
    IN  [shape |-> <<rows(a) * rows(b), cols(a) * cols(b)>>,
         data |-> [q \in DOMAIN x |-> x[q].val],
         sparse |-> FALSE]

\* scipy.sparse.kron(a, b, 'csr')
spkron(a, b) ==
    [shape |-> <<rows(a) * rows(b), cols(a) * cols(b)>>,
     data |-> [q \in Pos(rows(a) * rows(b), cols(a) * cols(b)) |->
                 cmul(a.data[<<q[1] \div rows(b), q[2] \div cols(b)>>],
                      b.data[<<q[1] % rows(b), q[2] % cols(b)>>])],
     sparse |-> TRUE]

kron2(a, b, junk) == IF a.sparse \/ b.sparse THEN spkron(a, b) ELSE krnd2(a, b, junk)

RECURSIVE kron(_, _)
kron(ps, junk) ==
    IF Len(ps) = 1
    THEN ps[1]
    ELSE kron2(ps[1], IF Len(ps) = 2 THEN ps[2] ELSE kron(Tail(ps), junk), junk)

\* the calls drawn for kron: one, two or three matrices
KronArgs ==
    {<<a>> : a \in MatInputs}
        \cup {<<a, b>> : a \in MatInputs, b \in MatInputs}
        \cup {<<Gen(m, n, 0, FALSE), b, Gen(n, m, 1, FALSE)>> :
                 m \in Dims, n \in Dims, b \in MatInputs}

InitKrnd2 ==
    \E a \in DenseInputs, b \in DenseInputs, g \in Junk :
        Call("krnd2", <<a, b>>, [junk |-> g])

Krnd2 ==
    /\ fn = "krnd2" /\ step = 0
    /\ Return(MatrixW(krnd2(args[1], args[2], par.junk),
                       krnd2_writes(args[1], args[2], par.junk)), 0, heap)

InitKron == \E ps \in KronArgs, g \in Junk : Call("kron", ps, [junk |-> g])

Kron ==
    /\ fn = "kron" /\ step = 0
    /\ Return(MatrixW(kron(args, par.junk),
                       IF Len(args) = 2 /\ ~args[1].sparse /\ ~args[2].sparse
                       THEN krnd2_writes(args[1], args[2], par.junk)
                       ELSE << >>),
              IF Len(args) = 1 THEN 1 ELSE 0, heap)

\* kronpow(a, pwr)
InitKronpow ==
    \E a \in MatInputs, k \in 0 .. MaxPwr, g \in Junk :
        Call("kronpow", <<a>>, [pwr |-> k, junk |-> g])

Kronpow ==
    /\ fn = "kronpow" /\ step = 0
    /\ IF par.pwr = 0 THEN Return(Scalar(1), 0, heap)
       ELSE IF par.pwr = 1 THEN Return(Matrix(args[1]), 1, heap)
       ELSE Return(Matrix(kron([k \in 1 .. par.pwr |-> args[1]], par.junk)), 0, heap)

InitK == InitKrnd2 \/ InitKron \/ InitKronpow
NextK == Krnd2 \/ Kron \/ Kronpow
SpecK == InitK /\ [][NextK]_vars

----------------------------------------------------------------------------
(* eye, eyepad *)

eye(n, sp) ==
    [shape |-> <<n, n>>,
     data |-> [q \in Pos(n, n) |-> IF q[1] = q[2] THEN <<1, 0>> ELSE <<0, 0>>],
     sparse |-> sp]

min(x, y) == IF x < y THEN x ELSE y

\* dims[lo:hi], a Python slice (0-based, hi excluded, clamped to the list)
slice(dims, lo, hi) ==
    LET h == min(hi, Len(dims))
    IN  IF lo >= h THEN << >> ELSE [k \in 1 .. h - lo |-> dims[lo + k]]

RECURSIVE prod(_)
prod(xs) == IF Len(xs) = 0 THEN 1 ELSE xs[1] * prod(Tail(xs))

\* the slice taken up to and including hi
pad_size_incl(dims, lo, hi) == prod(slice(dims, lo, hi + 1))

\* np.prod(dims[lo:hi]); the product of no dimensions is 1, which the
\* numpy of the code's day takes as the size of a 1x1 identity
pad_size(dims, lo, hi) == prod(slice(dims, lo, hi))

\* the sparse argument: "None" when not given
infer_sparse(a, sparse) == IF sparse = "None" THEN a.sparse ELSE sparse = "True"

\* b after i iterations of eyepad's loop; inds is 0-based as in the code,
\* held in a sequence, so inds[i] of the code is inds[i + 1] here
RECURSIVE eyepad_loop(_, _, _, _, _, _)
eyepad_loop(a, dims, inds, sp, junk, i) ==
    IF i = 0
    THEN eye(pad_size(dims, 0, inds[1]), sp)
    ELSE LET b == kron(<<eyepad_loop(a, dims, inds, sp, junk, i - 1), a>>, junk)
         IN  kron(<<b, eye(pad_size(dims, inds[i] + 1, inds[i + 1]), sp)>>, junk)

\* the operands swapped in the last product with a
eyepad_swapped(a, dims, inds, sparse, junk) ==
    LET sp == infer_sparse(a, sparse)
        b == kron(<<a, eyepad_loop(a, dims, inds, sp, junk, Len(inds) - 1)>>, junk)
    IN  kron(<<b, eye(pad_size(dims, inds[Len(inds)] + 1, Len(dims)), sp)>>, junk)

eyepad(a, dims, inds, sparse, junk) ==
    LET sp == infer_sparse(a, sparse)
        b == kron(<<eyepad_loop(a, dims, inds, sp, junk, Len(inds) - 1), a>>, junk)
    IN  kron(<<b, eye(pad_size(dims, inds[Len(inds)] + 1, Len(dims)), sp)>>, junk)

(* the calls drawn for eyepad *)
RECURSIVE SeqsUpTo(_, _)
SeqsUpTo(S, n) ==
    IF n = 0 THEN {<< >>}
    ELSE LET T == SeqsUpTo(S, n - 1)
         IN  T \cup {Append(t, x) : t \in {u \in T : Len(u) = n - 1}, x \in S}

SubDims == 2 .. MaxSubDim
DimsInputs == SeqsUpTo(SubDims, MaxSub) \ {<< >>}
strictly_ascending(inds) == \A k \in 1 .. Len(inds) - 1 : inds[k] < inds[k + 1]
\* ascending index lists into dims: the strictly ascending ones, and those
\* that name one subsystem twice
IndsInputs(dims) ==
    {t \in SeqsUpTo(0 .. Len(dims) - 1, Len(dims)) : Len(t) > 0 /\ strictly_ascending(t)}
        \cup {<<k, k>> : k \in 0 .. Len(dims) - 1}
selected(dims, inds) == [k \in 1 .. Len(inds) |-> dims[inds[k] + 1]]
\* x * y, or MaxOut + 1 when the product is larger than MaxOut
capped(x, y) == min(x * y, MaxOut + 1)
RECURSIVE cappedprod(_)
cappedprod(xs) == IF Len(xs) = 0 THEN 1 ELSE capped(min(xs[1], MaxOut + 1), cappedprod(Tail(xs)))
\* the row count of eyepad's result for an operator of dimension d, or
\* MaxOut + 1 when it is larger than MaxOut
out_rows(d, dims, inds) ==
    cappedprod(<<pad_size(dims, 0, inds[1])>>
        \o [k \in 1 .. Len(inds) |-> d]
        \o [k \in 1 .. Len(inds) - 1 |-> pad_size(dims, inds[k] + 1, inds[k + 1])]
        \o <<pad_size(dims, inds[Len(inds)] + 1, Len(dims))>>)
\* the operator's dimension is that of a selected subsystem, or the
\* product of the selected subsystems' dimensions
OpDims(dims, inds) ==
    {dims[inds[k] + 1] : k \in 1 .. Len(inds)} \cup {prod(selected(dims, inds))}
SparseArgs == {"None", "True", "False"}
\* the entry patterns the operator given to eyepad is drawn from
OpSeeds == {0, 1}

InitEye == \E n \in 1 .. MaxOut, sp \in BOOLEAN : Call("eye", << >>, [n |-> n, sparse |-> sp])

Eye ==
    /\ fn = "eye" /\ step = 0
    /\ Return(Matrix(eye(par.n, par.sparse)), 0, heap)

InitEyepad ==
    \E dims \in DimsInputs :
        \E inds \in IndsInputs(dims) :
            \E d \in OpDims(dims, inds), s \in OpSeeds, sp \in BOOLEAN,
               sparse \in SparseArgs, g \in Junk :
                /\ out_rows(d, dims, inds) <= MaxOut
                \* np.empty is reached only when every product is dense
                /\ (sp \/ sparse = "True") => g = <<0, 0>>
                /\ Call("eyepad", <<Gen(d, d, s, sp)>>,
                        [dims |-> dims, inds |-> inds, sparse |-> sparse, junk |-> g])

Eyepad ==
    /\ fn = "eyepad" /\ step = 0
    /\ Return(Matrix(eyepad(args[1], par.dims, par.inds, par.sparse, par.junk)), 0, heap)

InitE == InitEye \/ InitEyepad
NextE == Eye \/ Eyepad
SpecE == InitE /\ [][NextE]_vars

Range(t) == {t[k] : k \in 1 .. Len(t)}

\* F_0, ..., F_{n-1}: a at the selected subsystems, eye(dims[k]) elsewhere
factors(a, dims, inds) ==
    [k \in 1 .. Len(dims) |-> IF (k - 1) \in Range(inds) THEN a ELSE eye(dims[k], FALSE)]

\* a's dimension is that of every selected subsystem
fits_each(a, dims, inds) ==
    /\ rows(a) = cols(a)
    /\ \A k \in 1 .. Len(inds) : dims[inds[k] + 1] = rows(a)

\* a's dimension is the product of the selected subsystems' dimensions
fits_product(a, dims, inds) ==
    /\ rows(a) = cols(a)
    /\ rows(a) = prod(selected(dims, inds))

\* C1: for strictly ascending in-range inds and a square a whose dimension is
\* dims[k] for each k in inds, eyepad(a, dims, inds) equals, entry for entry,
\* kron(F_0, ..., F_{n-1}) with F_k = a for k in inds and eye(dims[k]) otherwise.
C1_EyepadIsKronChain ==
    (fn = "eyepad" /\ step = 1 /\ strictly_ascending(par.inds)
        /\ fits_each(args[1], par.dims, par.inds))
    => LET K == kron(factors(args[1], par.dims, par.inds), par.junk)
       IN  /\ ret.val.shape = K.shape
           /\ ret.val.data = K.data

\* the documented case: a 2x2 operator on subsystems 0 and 2 of [2,2,2,2],
\* returned as a 16x16 matrix that is not zero off the diagonal
C1_Witness ==
    /\ fn = "eyepad" /\ step = 1
    /\ par.dims = <<2, 2, 2, 2>> /\ par.inds = <<0, 2>>
    /\ args[1].shape = <<2, 2>>
    /\ ret.val.shape = <<16, 16>>
    /\ \E q \in DOMAIN ret.val.data : q[1] # q[2] /\ ret.val.data[q] # <<0, 0>>

\* C2 as stated: with inds strictly ascending, in range, and a's dimension the
\* product of dims at the selected indices, the result is square with
\* prod(dims) rows.
C2_AsStated ==
    (fn = "eyepad" /\ step = 1 /\ strictly_ascending(par.inds)
        /\ fits_product(args[1], par.dims, par.inds))
    => ret.val.shape = <<prod(par.dims), prod(par.dims)>>

\* C2 (amended): with inds strictly ascending, in range, and a's dimension
\* equal to dims[k] for every selected k, the result is square with
\* prod(dims) rows.
C2_EyepadDimension ==
    (fn = "eyepad" /\ step = 1 /\ strictly_ascending(par.inds)
        /\ fits_each(args[1], par.dims, par.inds))
    => ret.val.shape = <<prod(par.dims), prod(par.dims)>>

\* a 2x2 operator placed on the outer two of three subsystems, the middle
\* one of dimension 3, gave a 12x12 matrix
C2_Witness ==
    /\ fn = "eyepad" /\ step = 1
    /\ par.dims = <<2, 3, 2>> /\ par.inds = <<0, 2>>
    /\ args[1].shape = <<2, 2>>
    /\ ret.val.shape = <<12, 12>>

\* C4: eyepad returns the storage mode asked for: sparse when the flag is
\* true, dense when it is false, that of a when the flag is not given.
C4_StorageAsRequested ==
    (fn = "eyepad" /\ step = 1)
    => /\ par.sparse = "True" => ret.val.sparse
       /\ par.sparse = "False" => ~ret.val.sparse
       /\ par.sparse = "None" => (ret.val.sparse <=> args[1].sparse)

----------------------------------------------------------------------------
\* C3: for dense A (m x n) and B (p x q), kron(A, B) (and krnd2(A, B)) has
\* shape (m*p, n*q), its entry at row i*p+k, column j*q+l is A[i,j]*B[k,l],
\* and the loops assigned every cell of the result exactly once.
C3_KronDense ==
    (fn \in {"kron", "krnd2"} /\ step = 1 /\ Len(args) = 2
        /\ ~args[1].sparse /\ ~args[2].sparse)
    => LET A == args[1]
           B == args[2]
           X == ret.val
       IN  /\ X.shape = <<rows(A) * rows(B), cols(A) * cols(B)>>
           /\ DOMAIN X.data = Pos(rows(A) * rows(B), cols(A) * cols(B))
           /\ \A w \in Pos(rows(A), cols(A)), v \in Pos(rows(B), cols(B)) :
                 X.data[<<w[1] * rows(B) + v[1], w[2] * cols(B) + v[2]>>]
                     = cmul(A.data[w], B.data[v])
           /\ DOMAIN ret.writes = DOMAIN X.data
           /\ \A q \in DOMAIN X.data : ret.writes[q] = 1

\* a dense 2x2 by 1x2 product was returned, with a nonzero last entry
C3_Witness ==
    /\ fn = "kron" /\ step = 1 /\ Len(args) = 2
    /\ ~args[1].sparse /\ ~args[2].sparse
    /\ args[1].shape = <<2, 2>> /\ args[2].shape = <<1, 2>>
    /\ ret.val.shape = <<2, 4>>
    /\ ret.val.data[<<1, 3>>] # <<0, 0>>

----------------------------------------------------------------------------
(* chop *)

\* numpy orders complex numbers by real part, then by imaginary part
cle(u, v) == u[1] < v[1] \/ (u[1] = v[1] /\ u[2] <= v[2])
Values(x) == {x.data[q] : q \in DOMAIN x.data}
max(x) == CHOOSE u \in Values(x) : \A v \in Values(x) : cle(v, u)
minimum(x) == CHOOSE u \in Values(x) : \A v \in Values(x) : cle(u, v)

\* rnge squared: |x.max() - x.min()|^2
rnge2(x) == cabs2(csub(max(x), minimum(x)))

\* rnge taken as |x.max() + x.min()|
below_sum(part, x, tn) ==
    part * part * TolDen * TolDen < cabs2(cadd(max(x), minimum(x))) * tn * tn

\* |part| <= minm in place of |part| < minm
below_le(part, x, tn) == part * part * TolDen * TolDen <= rnge2(x) * tn * tn

\* |part| < minm, where minm = rnge * tol and tol = tn / TolDen >= 0
below(part, x, tn) == part * part * TolDen * TolDen < rnge2(x) * tn * tn

\* x after chop(x, tol): real and imaginary parts are zeroed separately; a
\* sparse x then drops its stored zeros, which leaves the entries as they are
chop(x, tn) ==
    [x EXCEPT !.data = [q \in DOMAIN x.data |->
        <<IF below(x.data[q][1], x, tn) THEN 0 ELSE x.data[q][1],
          IF below(x.data[q][2], x, tn) THEN 0 ELSE x.data[q][2]>>]]

ChopShapes == {<<1, 3>>, <<2, 1>>}
ChopVals == (-1 .. MaxPart) \X (0 .. 1)
ChopInputs ==
    UNION {{[shape |-> sh, data |-> d, sparse |-> sp] :
                d \in [Pos(sh[1], sh[2]) -> ChopVals], sp \in BOOLEAN} : sh \in ChopShapes}

InitChop ==
    \E x \in ChopInputs, tn \in 1 .. MaxTolNum : Call("chop", <<x>>, [tol |-> tn])

\* chop mutates the caller's matrix and returns that instance; it may be
\* called again on it
Chop ==
    /\ fn = "chop" /\ step < MaxChops
    /\ LET x == chop(heap[1], par.tol)
       IN  Return(Matrix(x), 1, <<x>>)

InitC == InitChop
NextC == Chop
SpecC == InitC /\ [][NextC]_vars

\* C8 as stated: a second chop with the same tolerance, its threshold taken
\* anew from the matrix it is given, leaves every entry as the first left it.
C8_AsStated == [][(fn = "chop" /\ step = 1) => heap' = heap]_vars

\* C8 (amended): a second chop with the same tolerance leaves every entry as
\* the first left it whenever the range of the chopped matrix is no larger
\* than the range of the original matrix.
C8_ChopTwice ==
    [][(fn = "chop" /\ step = 1 /\ rnge2(heap[1]) <= rnge2(args[1])) => heap' = heap]_vars

\* a first chop zeroed some part without enlarging the range, and the
\* second chop has run
C8_Witness ==
    /\ fn = "chop" /\ step = 2
    /\ chop(args[1], par.tol) # args[1]
    /\ rnge2(chop(args[1], par.tol)) <= rnge2(args[1])
    /\ heap[1] = chop(args[1], par.tol)

\* C9 as stated: chop zeroes both parts of an entry exactly when the entry's
\* magnitude is below tol*range, leaves every other entry as it was, and
\* returns the instance it was given.
C9_AsStated ==
    (fn = "chop" /\ step = 1)
    => /\ same = 1 /\ ret.val = heap[1]
       /\ \A q \in DOMAIN args[1].data :
             heap[1].data[q] =
                 IF cabs2(args[1].data[q]) * TolDen * TolDen
                        < rnge2(args[1]) * par.tol * par.tol
                 THEN <<0, 0>>
                 ELSE args[1].data[q]

\* C9 (amended): chop zeroes the real part of an entry exactly when that
\* part's magnitude is below tol*range, and the imaginary part exactly when
\* that part's magnitude is below tol*range, each whatever the other part
\* is; every other part is left as it was, and the returned matrix is the
\* instance that was passed in.
C9_ChopByPart ==
    (fn = "chop" /\ step = 1)
    => /\ same = 1 /\ ret.val = heap[1]
       /\ heap[1].shape = args[1].shape
       /\ \A q \in DOMAIN args[1].data : \A k \in 1 .. 2 :
             LET part == args[1].data[q][k]
                 lo == minimum(args[1])
                 hi == max(args[1])
                 r2 == (hi[1] - lo[1]) * (hi[1] - lo[1]) + (hi[2] - lo[2]) * (hi[2] - lo[2])
             IN  heap[1].data[q][k] =
                     IF abs(part) * abs(part) * TolDen * TolDen < r2 * par.tol * par.tol
                     THEN 0 ELSE part

\* an entry 3+1i lost its imaginary part and kept its real part
C9_Witness ==
    /\ fn = "chop" /\ step = 1 /\ same = 1
    /\ \E q \in DOMAIN args[1].data :
          /\ args[1].data[q] = <<3, 1>>
          /\ heap[1].data[q] = <<3, 0>>

----------------------------------------------------------------------------
(* every function of the module *)

Init ==
    \/ InitQonvert
    \/ InitClassify
    \/ InitNrmlz
    \/ InitKrnd2
    \/ InitKron
    \/ InitKronpow
    \/ InitEye
    \/ InitEyepad
    \/ InitChop
    \/ InitLdmul
    \/ InitRdmul
    \/ InitComm

Next ==
    \/ Qonvert
    \/ IsKet
    \/ IsBra
    \/ IsOp
    \/ Nrmlz
    \/ Krnd2
    \/ Kron
    \/ Kronpow
    \/ Eye
    \/ Eyepad
    \/ Chop
    \/ Ldmul
    \/ Rdmul
    \/ Comm

Spec == Init /\ [][Next]_vars

\* C7: every function but chop leaves the matrices passed to it with the
\* shape and the entries they had before the call.
C7_ArgumentsUntouched ==
    (step >= 1 /\ fn # "chop") => heap = args

====
